---- MODULE Spec2Model ----
(***************************************************************************)
(* Alert / geofence safety monitoring back end.                            *)
(*                                                                         *)
(* The durable store is modelled as two tables: alerts (a sequence, in     *)
(* insertion order, the position being the row id) and tourist_profiles    *)
(* (one row per user id).  Every await on the store is one atomic step of  *)
(* the store; what a handler does between two awaits is part of the step   *)
(* that follows it.                                                        *)
(***************************************************************************)
EXTENDS Integers, Sequences, FiniteSets, Bags, TLC

\* ------------------------------------------------------------------ bounds
MaxAlerts == 2
MaxTransitions == 2
MaxLocUpdates == 2
MaxGeofences == 2
MaxSeed == 49

\* ------------------------------------------------------------- JS values
Undefined == "undefined"        \* a request field that is absent
NullId == "null"                \* SQL NULL in an id column
NoTime == 0 - 1                 \* SQL NULL in a timestamp column

Falsy(v) == v = Undefined \/ v = ""

IsoText == "2026-01-01T00:00:00.000Z"

\* ----------------------------------------------------------------- users
Tourists == {"t1", "t2"}
Users == Tourists \cup {"p1", "p2", "a1", "d1"}

Role(u) ==
  CASE u \in Tourists -> "tourist"
    [] u \in {"p1", "p2"} -> "police"
    [] u = "a1" -> "admin"
    [] OTHER -> "tourism_dept"

validTypes ==
  {"panic", "geofence_violation", "low_safety_score", "missing",
   "health_emergency", "suspicious_activity"}

validStatuses == {"active", "acknowledged", "resolved", "false_alarm"}

responderRoles == {"police", "admin", "tourism_dept"}

\* ------------------------------------------------- JSON.stringify / spread
\* A JS array that came out of a spread: n one-character strings (q of them
\* a double quote, b of them a backslash) followed by the objects in items.
EmptyArray == [kind |-> "array", n |-> 0, q |-> 0, b |-> 0, items |-> <<>>]

SqlNull == [kind |-> "null"]

\* The length of JSON.stringify of one response object.
ResponseTextLen(r) ==
  Len("{\"responder_id\":\"") + Len(r.responder_id)
    + Len("\",\"action\":\"") + Len(r.action)
    + Len("\",\"timestamp\":\"") + Len(IsoText)
    + Len("\",\"notes\":\"") + Len(r.notes) + Len("\"}")

RECURSIVE SumTextLen(_)
SumTextLen(s) ==
  IF s = <<>> THEN 0 ELSE ResponseTextLen(Head(s)) + SumTextLen(Tail(s))

\* The length of JSON.stringify(a): brackets, each character as a quoted
\* (and where needed escaped) string, each object, and the commas between.
ArrayTextLen(a) ==
  LET elems == a.n + Len(a.items)
  IN  2 + (3 * a.n + a.q + a.b) + SumTextLen(a.items)
        + (IF elems > 0 THEN elems - 1 ELSE 0)

ArrayTextQuotes(a) == 2 * a.n + a.q + 16 * Len(a.items)

ArrayTextBackslashes(a) == a.q + 2 * a.b

\* JSON.stringify(v): a string, which remembers the value it is the text of.
Stringify(v) == [kind |-> "string", text |-> v]

\* [...v]: an array spreads to itself, a string to its characters.
Spread(v) ==
  IF v.kind = "string"
  THEN IF v.text.kind = "array"
       THEN [kind |-> "array", n |-> ArrayTextLen(v.text),
             q |-> ArrayTextQuotes(v.text),
             b |-> ArrayTextBackslashes(v.text), items |-> <<>>]
       ELSE EmptyArray
  ELSE v

\* existingAlert.responses || []
OrEmpty(v) == IF v.kind = "null" THEN EmptyArray ELSE v

PushItem(a, r) == [a EXCEPT !.items = Append(@, r)]

\* The number of entries of a stored responses value: those of the array, or
\* of the array a stored JSON text is the text of.
LogLen(v) ==
  IF v.kind = "null" THEN 0
  ELSE IF v.kind = "array" THEN v.n + Len(v.items)
  ELSE v.text.n + Len(v.text.items)

\* ------------------------------------------------------------------ state
VARIABLES
  alerts,        \* table alerts: Seq of rows, row id = position
  now,           \* the clock new Date() reads
  inflight,      \* bag of status-update requests between read and write
  numReq,        \* status-update requests that read their alert so far
  lastRes,       \* the HTTP response sent last
  handler,       \* which status-update handler the application mounts
  nOk,           \* per alert: status updates that were answered 200
  firstAssigned, \* per alert: the first value assigned_to was given
  everResolved,  \* per alert: some status update to resolved was answered 200
  profiles,      \* table tourist_profiles: one row (or none) per tourist
  locflight,     \* bag of location updates between two of their awaits
  geoflight,     \* bag of geofence creations between read and write
  numLoc,        \* location updates that read their profile so far
  numGeo,        \* geofence creations that read their profile so far
  submitted,     \* per tourist: the samples whose history write succeeded
  overlapped,    \* per tourist: a location update began during another one
  lastLoc,       \* what the location update that finished last did
  accepted       \* per tourist: the geofence creations answered 201, in order

vars ==
  <<alerts, now, inflight, numReq, lastRes, handler, nOk, firstAssigned,
    everResolved, profiles, locflight, geoflight, numLoc, numGeo, submitted,
    overlapped, lastLoc, accepted>>

AlertIds == 1..MaxAlerts

Handlers == {"route", "controller"}

NoRes == [op |-> "none", code |-> 0]

\* Columns an insert leaves out take the table's defaults.
AlertDefaults ==
  [severity |-> "medium", message |-> Undefined, status |-> "active",
   additional_data |-> SqlNull, assigned_to |-> NullId, resolved_at |-> NoTime,
   responses |-> SqlNull, auto_generated |-> FALSE, updated_at |-> NoTime]

Loc11 == [latitude |-> 1, longitude |-> 1]
LocEquator == [latitude |-> 0, longitude |-> 1]
NoLocation == [absent |-> TRUE]

\* !obj.f for a numeric member f: absent, or the number 0.
FalsyNum(obj, f) == f \notin DOMAIN obj \/ obj[f] = 0

\* No alert and no request yet.
InitAlerts ==
  /\ alerts = <<>>
  /\ inflight = EmptyBag
  /\ numReq = 0
  /\ lastRes = NoRes
  /\ nOk = [a \in AlertIds |-> 0]
  /\ firstAssigned = [a \in AlertIds |-> NullId]
  /\ everResolved = [a \in AlertIds |-> FALSE]

ghosts == <<nOk, firstAssigned, everResolved>>

alertvars == <<inflight, numReq, handler, ghosts>>

locvars ==
  <<profiles, locflight, geoflight, numLoc, numGeo, submitted, overlapped,
    lastLoc, accepted>>

\* --------------------------------------------------------- alert creation
\* The row an insert writes: the given columns over the defaults, with the
\* id the table generates.  Rows are kept in insertion order, which is the
\* order of created_at.
InsertedRow(cols) ==
  [c \in DOMAIN AlertDefaults \cup DOMAIN cols \cup {"id"} |->
     CASE c = "id" -> Len(alerts) + 1
       [] c \in DOMAIN cols -> cols[c]
       [] OTHER -> AlertDefaults[c]]

\* POST /alerts
SeverityInputs == {Undefined}

CreateAlertInputs ==
  [type : {"missing", "teleport", Undefined},
   severity : SeverityInputs,
   location : {Loc11, LocEquator, NoLocation},
   message : {"help"},
   additional_data : {Undefined}]

CreateAlertRoute(u, body) ==
  /\ Len(alerts) < MaxAlerts
  /\ UNCHANGED <<inflight, numReq, handler, ghosts, locvars>>
  /\ IF Role(u) # "tourist"
     THEN /\ lastRes' = [op |-> "create", code |-> 403]
          /\ UNCHANGED <<alerts, now>>
     ELSE IF \/ Falsy(body.type)
             \/ body.location = NoLocation
             \/ FalsyNum(body.location, "latitude")
             \/ FalsyNum(body.location, "longitude")
     THEN /\ lastRes' = [op |-> "create", code |-> 400]
          /\ UNCHANGED <<alerts, now>>
     ELSE IF body.type \notin validTypes
     THEN /\ lastRes' = [op |-> "create", code |-> 400]
          /\ UNCHANGED <<alerts, now>>
     ELSE \E stored \in BOOLEAN :
            IF stored
            THEN /\ alerts' = Append(alerts, InsertedRow(
                      [tourist_id |-> u,
                       type |-> body.type,
                       severity |-> IF Falsy(body.severity) THEN "medium"
                                    ELSE body.severity,
                       location |-> Stringify(body.location),
                       message |-> body.message,
                       additional_data |-> Stringify([kind |-> "object"]),
                       status |-> "active"]))
                 /\ lastRes' = [op |-> "create", code |-> 201]
                 /\ UNCHANGED now
            ELSE /\ lastRes' = [op |-> "create", code |-> 500]
                 /\ UNCHANGED <<alerts, now>>

\* createAlertSchema of the controller.
validSeverities == {"low", "medium", "high", "critical"}

\* createAlertSchema.validate(req.body) reports no error: type required and
\* enumerated, severity enumerated when present, location an object with
\* the numbers latitude and longitude (0 is a number).
ValidCreateAlert(body) ==
  /\ body.type \in validTypes
  /\ body.severity = Undefined \/ body.severity \in validSeverities
  /\ body.location # NoLocation
  /\ "latitude" \in DOMAIN body.location
  /\ "longitude" \in DOMAIN body.location

\* The columns the controller's createAlert inserts.
CreateColumns(u, body) ==
  [tourist_id |-> u,
   type |-> body.type,
   severity |-> IF Falsy(body.severity) THEN "medium" ELSE body.severity,
   location |-> Stringify(body.location),
   message |-> body.message,
   additional_data |-> Stringify([kind |-> "object"]),
   status |-> "active"]

\* exports.createAlert of the controller: validation, then the insert; the
\* notification only logs.
CreateAlertController(u, body) ==
  /\ Len(alerts) < MaxAlerts
  /\ UNCHANGED <<now, inflight, numReq, handler, ghosts, locvars>>
  /\ IF ~ValidCreateAlert(body)
     THEN /\ lastRes' = [op |-> "create", code |-> 400]
          /\ UNCHANGED alerts
     ELSE \E stored \in BOOLEAN :
            IF stored
            THEN /\ alerts' = Append(alerts, InsertedRow(CreateColumns(u, body)))
                 /\ lastRes' = [op |-> "create", code |-> 201]
            ELSE /\ lastRes' = [op |-> "create", code |-> 500]
                 /\ UNCHANGED alerts

\* ------------------------------------------------------------ panic button
PanicText == "PANIC BUTTON PRESSED - Immediate assistance required!"

\* POST /alerts/panic bodies: the handler reads location and message only.
PanicBodies ==
  [location : {Loc11, LocEquator, NoLocation},
   message : {Undefined, "trapped"},
   type : {Undefined}, severity : {Undefined}, status : {Undefined}]
    \cup
  [location : {Loc11},
   message : {Undefined, "trapped"},
   type : {"missing"}, severity : {"low"}, status : {"resolved"}]

\* A panic alert that takes the severity of the request when it has one.
PanicColumnsFromBody(u, body) ==
  [tourist_id |-> u,
   type |-> "panic",
   severity |-> IF Falsy(body.severity) THEN "critical" ELSE body.severity,
   location |-> Stringify(body.location),
   message |-> IF Falsy(body.message) THEN PanicText ELSE body.message,
   additional_data |-> Stringify([panic_button |-> TRUE, timestamp |-> now]),
   status |-> "active"]

\* The columns the panic route inserts.
PanicColumns(u, body) ==
  [tourist_id |-> u,
   type |-> "panic",
   severity |-> "critical",
   location |-> Stringify(body.location),
   message |-> IF Falsy(body.message) THEN PanicText ELSE body.message,
   additional_data |-> Stringify([panic_button |-> TRUE, timestamp |-> now]),
   status |-> "active"]

\* router.post('/panic')
CreatePanicAlert(u, body) ==
  /\ Len(alerts) < MaxAlerts
  /\ UNCHANGED <<now, inflight, numReq, handler, ghosts, locvars>>
  /\ IF Role(u) # "tourist"
     THEN /\ lastRes' = [op |-> "panic", code |-> 403]
          /\ UNCHANGED alerts
     ELSE IF \/ body.location = NoLocation
             \/ FalsyNum(body.location, "latitude")
             \/ FalsyNum(body.location, "longitude")
     THEN /\ lastRes' = [op |-> "panic", code |-> 400]
          /\ UNCHANGED alerts
     ELSE \E stored \in BOOLEAN :
            IF stored
            THEN /\ alerts' = Append(alerts, InsertedRow(PanicColumns(u, body)))
                 /\ lastRes' = [op |-> "panic", code |-> 201]
            ELSE /\ lastRes' = [op |-> "panic", code |-> 500]
                 /\ UNCHANGED alerts

\* ------------------------------------------------------- status transition
StatusInputs == validStatuses \cup {"reopened", Undefined}

\* Request bodies: every status without notes, and one with notes.
StatusBodies ==
  [status : StatusInputs, notes : {Undefined}]
    \cup {[status |-> "resolved", notes |-> "handled"]}

\* Step 1 of PUT /alerts/:alertId/status: the route validates the status,
\* the controller does not; both then read the alert row.
LoadAlert(u, id, status, notes) ==
  /\ numReq < MaxTransitions
  /\ UNCHANGED <<alerts, now, handler, ghosts, locvars>>
  /\ IF handler = "route" /\ Falsy(status)
     THEN /\ lastRes' = [op |-> "status", code |-> 400]
          /\ UNCHANGED <<inflight, numReq>>
     ELSE IF handler = "route" /\ status \notin validStatuses
     THEN /\ lastRes' = [op |-> "status", code |-> 400]
          /\ UNCHANGED <<inflight, numReq>>
     ELSE \E fetched \in BOOLEAN :
            IF ~fetched \/ id \notin 1..Len(alerts)
            THEN /\ lastRes' = [op |-> "status", code |-> 404]
                 /\ UNCHANGED <<inflight, numReq>>
            ELSE /\ inflight' = inflight (+) SetToBag(
                      {[actor |-> u, alertId |-> id, status |-> status,
                        notes |-> notes, existingAlert |-> alerts[id]]})
                 /\ numReq' = numReq + 1
                 /\ lastRes' = NoRes

\* The response record the handler appends.
NewResponse(r) ==
  [responder_id |-> r.actor,
   action |-> "Status changed to " \o r.status,
   timestamp |-> now,
   notes |-> IF Falsy(r.notes) THEN "" ELSE r.notes]

\* A stamp on every closing status, not only on resolved.
ResolvedStampOnClose(r) ==
  IF r.status \in {"resolved", "false_alarm"} THEN [resolved_at |-> now] ELSE <<>>

\* if (status === 'resolved') updateData.resolved_at = ...
ResolvedStamp(r) ==
  IF r.status = "resolved" THEN [resolved_at |-> now] ELSE <<>>

\* A claim of the alert by whoever updates it first, whatever their role.
AssigneeClaimAnyRole(r) ==
  IF r.existingAlert.assigned_to = NullId
  THEN [assigned_to |-> r.actor] ELSE <<>>

\* if (!existingAlert.assigned_to && [...].includes(req.user.role)) ...
AssigneeClaim(r) ==
  IF r.existingAlert.assigned_to = NullId /\ Role(r.actor) \in responderRoles
  THEN [assigned_to |-> r.actor] ELSE <<>>

\* [...currentResponses, newResponse], which the controller stringifies.
ResponsesColumn(r) ==
  LET log == PushItem(Spread(OrEmpty(r.existingAlert.responses)), NewResponse(r))
  IN  [responses |-> IF handler = "controller" THEN Stringify(log) ELSE log]

\* updateData: the columns the update writes (absent columns are kept).
UpdateData(r) ==
  LET base == [status |-> r.status, updated_at |-> now]
      res == ResolvedStamp(r)
      asg == AssigneeClaim(r)
      rsp == ResponsesColumn(r)
  IN  [c \in DOMAIN base \cup DOMAIN res \cup DOMAIN asg \cup DOMAIN rsp |->
         CASE c \in DOMAIN base -> base[c]
           [] c \in DOMAIN res -> res[c]
           [] c \in DOMAIN asg -> asg[c]
           [] OTHER -> rsp[c]]

\* update(...).eq('id', alertId): the request body is JSON, which drops a
\* member that is undefined (only status, taken from the request, can be).
Sent(data, c) == c \in DOMAIN data /\ ~(c = "status" /\ data[c] = Undefined)

\* An update that replaced the row: columns not sent fall back to the
\* table's defaults.
ApplyUpdateReplacingRow(row, data) ==
  [c \in DOMAIN row |->
     IF Sent(data, c) THEN data[c]
     ELSE IF c \in DOMAIN AlertDefaults THEN AlertDefaults[c] ELSE row[c]]

\* The row after the update: the columns sent take their new values, every
\* other column keeps its own.
ApplyUpdate(row, data) ==
  [c \in DOMAIN row |-> IF Sent(data, c) THEN data[c] ELSE row[c]]

\* Step 2: the permission check on the row read in step 1, then the update.
UpdateAlert(r) ==
  /\ BagIn(r, inflight)
  /\ inflight' = inflight (-) SetToBag({r})
  /\ UNCHANGED <<numReq, handler, locvars>>
  /\ IF Role(r.actor) = "tourist" /\ r.existingAlert.tourist_id # r.actor
     THEN /\ lastRes' = [op |-> "status", code |-> 403]
          /\ UNCHANGED <<alerts, now, ghosts>>
     ELSE \E updated \in BOOLEAN :
            IF updated
            THEN LET data == UpdateData(r)
                     id == r.alertId
                 IN  /\ alerts' = [alerts EXCEPT ![id] = ApplyUpdate(@, data)]
                     /\ now' = now + 1
                     /\ lastRes' = [op |-> "status", code |-> 200]
                     /\ nOk' = [nOk EXCEPT ![id] = @ + 1]
                     /\ firstAssigned' =
                          IF firstAssigned[id] = NullId /\ "assigned_to" \in DOMAIN data
                          THEN [firstAssigned EXCEPT ![id] = data.assigned_to]
                          ELSE firstAssigned
                     /\ everResolved' =
                          [everResolved EXCEPT ![id] = @ \/ r.status = "resolved"]
            ELSE /\ lastRes' = [op |-> "status", code |-> 500]
                 /\ UNCHANGED <<alerts, now, ghosts>>

\* ------------------------------------------------------------ alert list
\* Query parameters arrive as strings; an absent one takes its default.
DecimalValue == ("1" :> 1) @@ ("2" :> 2) @@ ("3" :> 3)

DefaultPage == 1
DefaultLimit == 20

ToNumber(v, default) == IF v = Undefined THEN default ELSE DecimalValue[v]

RECURSIVE Pow10(_)
Pow10(k) == IF k = 0 THEN 1 ELSE 10 * Pow10(k - 1)

\* const from = (page - 1) * limit: both operands are converted to numbers.
RangeFrom(q) == (ToNumber(q.page, DefaultPage) - 1) * ToNumber(q.limit, DefaultLimit)

\* const to = from + limit - 1: with limit a string, + concatenates the
\* decimal text of from and limit, and - converts the text back.
RangeTo(q) ==
  IF q.limit = Undefined
  THEN RangeFrom(q) + DefaultLimit - 1
  ELSE RangeFrom(q) * Pow10(Len(q.limit)) + DecimalValue[q.limit] - 1

\* No role filter: every actor sees every alert.
VisibleToAll(u, row) == TRUE

\* The role filter: a tourist only sees their own alerts.
Visible(u, row) == Role(u) = "tourist" => row.tourist_id = u

Matches(u, q, row) ==
  /\ Visible(u, row)
  /\ Falsy(q.status) \/ row.status = q.status
  /\ Falsy(q.type) \/ row.type = q.type
  /\ Falsy(q.severity) \/ row.severity = q.severity

\* order('created_at', {ascending: false}): newest first.
RECURSIVE NewestFirst(_)
NewestFirst(rows) ==
  IF rows = <<>> THEN <<>>
  ELSE Append(NewestFirst(Tail(rows)), Head(rows))

\* range(from, to): the rows at positions from..to, counted from 0.
Range(rows, from, to) ==
  LET last == IF to + 1 < Len(rows) THEN to + 1 ELSE Len(rows)
  IN  IF from + 1 > last THEN <<>> ELSE SubSeq(rows, from + 1, last)

\* The select asks for no count, so the store returns none.
NoCount == 0 - 1

\* GET /alerts: the body sent to actor u for query q when the select succeeds.
ListResponse(u, q) ==
  LET rows == SelectSeq(NewestFirst(alerts), LAMBDA row : Matches(u, q, row))
      count == NoCount
  IN  [alerts |-> Range(rows, RangeFrom(q), RangeTo(q)),
       pagination |->
         [page |-> ToNumber(q.page, DefaultPage),
          limit |-> ToNumber(q.limit, DefaultLimit),
          total |-> IF handler = "route" /\ count = NoCount THEN 0 ELSE count,
          pages |-> 0]]

\* GET /alerts: reads only; lastRes keeps the status code, the body being
\* ListResponse(u, q) of the state the request ran in.
GetAlerts(u, q) ==
  /\ UNCHANGED <<alerts, now, inflight, numReq, handler, ghosts, locvars>>
  /\ \E fetched \in BOOLEAN :
       lastRes' = [op |-> "list", code |-> IF fetched THEN 200 ELSE 500]

\* ------------------------------------------------------- Haversine distance
\* Coordinates are whole microdegrees, angles nanoradians and distances
\* millimetres; the series below are those of the Math functions, cut off
\* where the next term is below the unit, for points a few kilometres apart.
Abs(x) == IF x < 0 THEN 0 - x ELSE x

Half(x) == IF x < 0 THEN 0 - ((0 - x) \div 2) ELSE x \div 2

\* x * Math.PI/180 for x in microdegrees, in nanoradians.
ToRadians(x) ==
  LET r == (Abs(x) \div 1000) * 17453 + ((Abs(x) % 1000) * 17453) \div 1000
  IN  IF x < 0 THEN 0 - r ELSE r

\* Math.sin(x) of a small angle, x and the result in nanoradians.
Sin(x) ==
  LET k == Abs(x) \div 1000
      s == Abs(x) - ((k * k * k) \div 6000) \div 1000000
  IN  IF x < 0 THEN 0 - s ELSE s

\* Math.cos(x), x in nanoradians, the result in units of 10^-4.
Cos(x) ==
  LET x1 == x \div 100000
      x2 == (x1 * x1) \div 10000
      x4 == (x2 * x2) \div 10000
      x6 == (x4 * x2) \div 10000
  IN  10000 - x2 \div 2 + x4 \div 24 - x6 \div 720

\* s * s for s in units of 10^-9, in units of 10^-16.
Square(s) ==
  LET h == Abs(s) \div 10
      l == Abs(s) % 10
  IN  h * h + (20 * h * l + l * l) \div 100

\* p * c / 10^4 without leaving 32 bits.
MulDiv4(p, c) == (p \div 10000) * c + ((p % 10000) * c) \div 10000

RECURSIVE SqrtBetween(_, _, _)
SqrtBetween(n, lo, hi) ==
  IF lo >= hi THEN lo
  ELSE LET mid == (lo + hi + 1) \div 2
       IN  IF mid * mid <= n THEN SqrtBetween(n, mid, hi)
           ELSE SqrtBetween(n, lo, mid - 1)

\* Math.sqrt(n) of n in units of 10^-16, in units of 10^-8.
Sqrt(n) == SqrtBetween(n, 0, 46340)

Unit8 == 10000 * 10000

\* Math.atan2(y, x) for 0 <= y << x, all in units of 10^-8.
Atan2(y, x) ==
  LET t == y + (y * (Unit8 - x)) \div Unit8
  IN  t - (((t * t) \div Unit8) * t) \div (3 * Unit8)

\* R * c with R = 6371e3 m: the distance in millimetres.
calculateDistance(lat1, lon1, lat2, lon2) ==
  LET p1 == ToRadians(lat1)
      p2 == ToRadians(lat2)
      dp == ToRadians(lat2 - lat1)
      dl == ToRadians(lon2 - lon1)
      a == Square(Sin(Half(dp)))
             + MulDiv4(Square(Sin(Half(dl))), (Cos(p1) * Cos(p2)) \div 10000)
      c == 2 * Atan2(Sqrt(a), Unit8 - (a \div 2) \div Unit8)
  IN  (6371 * c) \div 100

\* ------------------------------------------------------- tourist profiles
\* A JSON column is SQL NULL or a list; a tourist has a profile row or none.
List(items) == [kind |-> "list", items |-> items]

NoProfile == [absent |-> TRUE]

\* profile?.column || []
Items(profile, column) ==
  IF profile = NoProfile THEN <<>>
  ELSE IF profile[column].kind = "null" THEN <<>>
  ELSE profile[column].items

\* The row registration inserts: user_id only, the JSON columns left NULL.
NewProfile == [location_history |-> SqlNull, geofences |-> SqlNull,
               updated_at |-> NoTime]

\* An upsert that replaced the row: the columns not given become NULL.
UpsertReplacingRow(u, cols) ==
  [profiles EXCEPT ![u] =
     [c \in DOMAIN NewProfile |->
        IF c \in DOMAIN cols THEN cols[c] ELSE NewProfile[c]]]

\* upsert(cols, {onConflict: 'user_id'}): the row of user u gets the columns
\* given, and keeps the others (a new row has them NULL).
Upsert(u, cols) ==
  LET old == IF profiles[u] = NoProfile THEN NewProfile ELSE profiles[u]
  IN  [profiles EXCEPT ![u] =
         [c \in DOMAIN old |-> IF c \in DOMAIN cols THEN cols[c] ELSE old[c]]]

\* Points in microdegrees: (12.97, 77.59), one about 78 m and one about
\* 1.1 km from it.
Centre == [latitude |-> 12970000, longitude |-> 77590000]
Near == [latitude |-> 12970500, longitude |-> 77590500]
Far == [latitude |-> 12980000, longitude |-> 77590000]

\* ------------------------------------------------------- geofence creation
\* POST bodies; radius is in tenths of a metre (5005 is 500.5), a member
\* that is absent is undefined.
GeofenceBodies ==
  {[name |-> "Cliff", latitude |-> Centre.latitude,
    longitude |-> Centre.longitude, radius |-> 5005, type |-> "danger"],
   [name |-> "Ledge", latitude |-> Centre.latitude,
    longitude |-> Centre.longitude, radius |-> 505, type |-> "danger"],
   [name |-> "Pier", latitude |-> Centre.latitude,
    longitude |-> Centre.longitude, radius |-> 5005, type |-> "warning"],
   [name |-> "Camp", latitude |-> Centre.latitude,
    longitude |-> Centre.longitude, radius |-> 5005, type |-> "safe"],
   [name |-> "Crater", latitude |-> Centre.latitude,
    longitude |-> Centre.longitude, radius |-> 5005, type |-> "lava"],
   [name |-> "Depot", latitude |-> Centre.latitude,
    longitude |-> Centre.longitude, type |-> "danger"]}

geofenceTypes == {"safe", "warning", "danger"}

\* parseInt(radius): the whole metres of a radius given in tenths.
ParseInt(tenths) ==
  IF tenths < 0 THEN 0 - ((0 - tenths) \div 10) ELSE tenths \div 10

\* Step 1 of createGeofence: the presence and type checks, then the read of
\* the geofences column (no row is not an error).
LoadGeofences(u, body) ==
  /\ numGeo < MaxGeofences
  /\ UNCHANGED <<alerts, now, alertvars, profiles, locflight, numLoc,
                 submitted, overlapped, lastLoc, accepted>>
  /\ IF \/ FalsyNum(body, "latitude") \/ FalsyNum(body, "longitude")
        \/ FalsyNum(body, "radius")
        \/ "name" \notin DOMAIN body \/ "type" \notin DOMAIN body
     THEN /\ lastRes' = [op |-> "geofence", code |-> 400]
          /\ UNCHANGED <<geoflight, numGeo>>
     ELSE IF body.type \notin geofenceTypes
     THEN /\ lastRes' = [op |-> "geofence", code |-> 400]
          /\ UNCHANGED <<geoflight, numGeo>>
     ELSE \E fetched \in BOOLEAN :
            IF ~fetched
            THEN /\ lastRes' = [op |-> "geofence", code |-> 500]
                 /\ UNCHANGED <<geoflight, numGeo>>
            ELSE /\ geoflight' = geoflight (+) SetToBag(
                      {[actor |-> u, body |-> body,
                        currentGeofences |-> Items(profiles[u], "geofences")]})
                 /\ numGeo' = numGeo + 1
                 /\ lastRes' = NoRes

\* The geofence object the handler builds; its id is the clock's reading.
NewGeofence(body) ==
  [id |-> [geofence |-> now],
   name |-> body.name,
   coordinates |-> [latitude |-> body.latitude, longitude |-> body.longitude],
   radius |-> ParseInt(body.radius),
   type |-> body.type,
   is_active |-> TRUE,
   created_at |-> now]

\* A createGeofence that appended to the list the row holds when it writes.
UpdatedGeofencesOfRow(r) ==
  Append(Items(profiles[r.actor], "geofences"), NewGeofence(r.body))

\* [...currentGeofences, newGeofence]: the list read in step 1 with the new
\* geofence at its end.
UpdatedGeofences(r) == Append(r.currentGeofences, NewGeofence(r.body))

\* Step 2 of createGeofence: the upsert of the whole geofences column.  The
\* clock may or may not have moved on since.
StoreGeofences(r) ==
  /\ BagIn(r, geoflight)
  /\ geoflight' = geoflight (-) SetToBag({r})
  /\ UNCHANGED <<alerts, alertvars, locflight, numLoc, numGeo, submitted,
                 overlapped, lastLoc>>
  /\ \E updated \in BOOLEAN, tick \in {0, 1} :
       /\ now' = now + tick
       /\ IF updated
          THEN /\ profiles' = Upsert(r.actor,
                    [geofences |-> List(UpdatedGeofences(r)),
                     updated_at |-> now])
               /\ lastRes' = [op |-> "geofence", code |-> 201]
               /\ accepted' = [accepted EXCEPT ![r.actor] =
                      Append(@, [geofence |-> NewGeofence(r.body),
                                 read |-> r.currentGeofences])]
          ELSE /\ profiles' = profiles
               /\ lastRes' = [op |-> "geofence", code |-> 500]
               /\ accepted' = accepted

\* router.post('/geofences'): the same checks as createGeofence behind
\* authorize('tourist'); it logs the geofence and answers 201 without a
\* read or a write of the store.
CreateGeofenceRoute(u, body) ==
  /\ UNCHANGED <<alerts, now, alertvars, locvars>>
  /\ IF u \notin Tourists
     THEN lastRes' = [op |-> "geofence", code |-> 403]
     ELSE IF \/ FalsyNum(body, "latitude") \/ FalsyNum(body, "longitude")
             \/ FalsyNum(body, "radius")
             \/ "name" \notin DOMAIN body \/ "type" \notin DOMAIN body
     THEN lastRes' = [op |-> "geofence", code |-> 400]
     ELSE IF body.type \notin geofenceTypes
     THEN lastRes' = [op |-> "geofence", code |-> 400]
     ELSE lastRes' = [op |-> "geofence", code |-> 201]

\* --------------------------------------------------------- location update
\* Joi.number().min(-90).max(90) and min(-180).max(180), in microdegrees.
MaxLatitude == 90000000
MaxLongitude == 180000000

LocationBodies ==
  {Near, Far, [latitude |-> 91000000, longitude |-> Near.longitude],
   [longitude |-> Near.longitude]}

\* updateLocationSchema.validate(req.body) reports no error.
ValidLocation(body) ==
  /\ "latitude" \in DOMAIN body /\ "longitude" \in DOMAIN body
  /\ 0 - MaxLatitude <= body.latitude /\ body.latitude <= MaxLatitude
  /\ 0 - MaxLongitude <= body.longitude /\ body.longitude <= MaxLongitude

NoLoc == [code |-> 0]

\* Step 1 of updateLocation: validation, then the read of location_history
\* (no row is not an error).
LoadHistory(u, body) ==
  /\ numLoc < MaxLocUpdates
  /\ UNCHANGED <<alerts, now, alertvars, profiles, geoflight, numGeo,
                 submitted, lastLoc, accepted>>
  /\ IF ~ValidLocation(body)
     THEN /\ lastRes' = [op |-> "location", code |-> 400]
          /\ UNCHANGED <<locflight, numLoc, overlapped>>
     ELSE \E fetched \in BOOLEAN :
            IF ~fetched
            THEN /\ lastRes' = [op |-> "location", code |-> 500]
                 /\ UNCHANGED <<locflight, numLoc, overlapped>>
            ELSE /\ locflight' = locflight (+) SetToBag(
                      {[actor |-> u, latitude |-> body.latitude,
                        longitude |-> body.longitude, pc |-> "write",
                        currentHistory |-> Items(profiles[u], "location_history"),
                        fences |-> <<>>, idx |-> 0, created |-> <<>>,
                        fault |-> "none"]})
                 /\ numLoc' = numLoc + 1
                 /\ overlapped' =
                      [overlapped EXCEPT ![u] =
                         @ \/ \E r \in BagToSet(locflight) : r.actor = u]
                 /\ lastRes' = NoRes

\* router.put('/location'): behind authorize('tourist') it only checks that
\* both coordinates are truthy, logs the sample and answers 200; it reads
\* and writes nothing.
UpdateLocationRoute(u, body) ==
  /\ UNCHANGED <<alerts, now, alertvars, locvars>>
  /\ IF u \notin Tourists
     THEN lastRes' = [op |-> "location", code |-> 403]
     ELSE IF FalsyNum(body, "latitude") \/ FalsyNum(body, "longitude")
     THEN lastRes' = [op |-> "location", code |-> 400]
     ELSE lastRes' = [op |-> "location", code |-> 200]

\* The sample the handler records.
LocationEntry(r) ==
  [latitude |-> r.latitude, longitude |-> r.longitude, timestamp |-> now,
   source |-> "mobile_app"]

\* s.slice(-k): the last k elements of s.
SliceLast(s, k) == IF Len(s) <= k THEN s ELSE SubSeq(s, Len(s) - k + 1, Len(s))

\* s.slice(0, k): the first k elements of s.
SliceFirst(s, k) == IF Len(s) <= k THEN s ELSE SubSeq(s, 1, k)

HistoryKeep == 49

\* One more than the code keeps before it adds the new sample.
UpdatedHistoryKeepOneMore(currentHistory, entry) ==
  Append(SliceLast(currentHistory, HistoryKeep + 1), entry)

\* The oldest samples kept in place of the newest.
UpdatedHistoryKeepOldest(currentHistory, entry) ==
  Append(SliceFirst(currentHistory, HistoryKeep), entry)

\* [...currentHistory.slice(-49), locationEntry]
UpdatedHistory(currentHistory, entry) ==
  Append(SliceLast(currentHistory, HistoryKeep), entry)

\* A history write that goes on to the detector whether or not the upsert
\* succeeded.
StoreHistoryThenDetectAnyway(r) ==
  /\ BagIn(r, locflight) /\ r.pc = "write"
  /\ UNCHANGED <<alerts, alertvars, geoflight, numLoc, numGeo, overlapped,
                 lastLoc, accepted>>
  /\ now' = now + 1
  /\ locflight' = (locflight (-) SetToBag({r})) (+) SetToBag(
       {[r EXCEPT !.pc = "detect", !.currentHistory = <<>>]})
  /\ lastRes' = NoRes
  /\ \E updated \in BOOLEAN :
       IF updated
       THEN /\ profiles' = Upsert(r.actor,
                 [location_history |->
                    List(UpdatedHistory(r.currentHistory, LocationEntry(r))),
                  updated_at |-> now])
            /\ submitted' =
                 [submitted EXCEPT ![r.actor] = Append(@, LocationEntry(r))]
       ELSE UNCHANGED <<profiles, submitted>>

\* Step 2 of updateLocation: the upsert of the history read in step 1 with
\* the new sample at its end; the clock moves on.
StoreHistory(r) ==
  /\ BagIn(r, locflight) /\ r.pc = "write"
  /\ UNCHANGED <<alerts, alertvars, geoflight, numLoc, numGeo, overlapped,
                 lastLoc, accepted>>
  /\ now' = now + 1
  /\ \E updated \in BOOLEAN :
       IF updated
       THEN /\ profiles' = Upsert(r.actor,
                 [location_history |->
                    List(UpdatedHistory(r.currentHistory, LocationEntry(r))),
                  updated_at |-> now])
            /\ submitted' =
                 [submitted EXCEPT ![r.actor] = Append(@, LocationEntry(r))]
            /\ locflight' = (locflight (-) SetToBag({r})) (+) SetToBag(
                 {[r EXCEPT !.pc = "detect", !.currentHistory = <<>>]})
            /\ lastRes' = NoRes
       ELSE /\ locflight' = locflight (-) SetToBag({r})
            /\ lastRes' = [op |-> "location", code |-> 500]
            /\ UNCHANGED <<profiles, submitted>>

\* ------------------------------------------------------ violation detector
\* An alert for every zone the sample is in, whatever its type.
TriggersAnyType(g, lat, lon) ==
  calculateDistance(lat, lon, g.coordinates.latitude, g.coordinates.longitude)
    <= g.radius * 1000

\* distance <= geofence.radius && geofence.type === 'danger'
Triggers(g, lat, lon) ==
  /\ calculateDistance(lat, lon, g.coordinates.latitude,
                       g.coordinates.longitude) <= g.radius * 1000
  /\ g.type = "danger"

LoopDone == 0
Thrown == 0 - 1

\* The for loop from position from up to its next await: the position of the
\* next geofence that triggers an insert, LoopDone when there is none, Thrown
\* when reading the coordinates of an active geofence raises a TypeError.
RECURSIVE NextHit(_, _, _, _)
NextHit(fences, from, lat, lon) ==
  IF from > Len(fences) THEN LoopDone
  ELSE IF ~fences[from].is_active THEN NextHit(fences, from + 1, lat, lon)
  ELSE IF "coordinates" \notin DOMAIN fences[from] THEN Thrown
  ELSE IF Triggers(fences[from], lat, lon) THEN from
  ELSE NextHit(fences, from + 1, lat, lon)

\* A failure inside the detector reaches the caller as a storage error.
DetectorResponsePropagating(fault) == IF fault = "none" THEN 200 ELSE 500

\* The detector catches what it throws, and updateLocation answers with
\* res.json(...) once it returns.
DetectorResponse(fault) == 200

\* The detector returns, and updateLocation sends its response: request old
\* leaves the bag, r being what it has become.
Respond(old, r) ==
  /\ locflight' = locflight (-) SetToBag({old})
  /\ lastRes' = [op |-> "location", code |-> DetectorResponse(r.fault)]
  /\ lastLoc' = [code |-> DetectorResponse(r.fault), actor |-> r.actor,
                 latitude |-> r.latitude, longitude |-> r.longitude,
                 fences |-> r.fences, created |-> r.created,
                 fault |-> r.fault]

\* The detector's loop runs on from position from: to its next insert, to
\* its end, or to the catch block.
Continue(old, r, from) ==
  LET k == NextHit(r.fences, from, r.latitude, r.longitude)
  IN  IF k > 0
      THEN /\ locflight' = (locflight (-) SetToBag({old})) (+) SetToBag(
                {[r EXCEPT !.pc = "insert", !.idx = k]})
           /\ lastRes' = NoRes
           /\ lastLoc' = lastLoc
      ELSE IF k = Thrown /\ r.fault = "none"
      THEN Respond(old, [r EXCEPT !.fault = "evaluate"])
      ELSE Respond(old, r)

\* Step 3 of updateLocation, the first of checkGeofenceViolations: the read
\* of the geofences column, then the loop up to its first insert.
LoadFences(r) ==
  /\ BagIn(r, locflight) /\ r.pc = "detect"
  /\ UNCHANGED <<alerts, now, alertvars, profiles, geoflight, numLoc, numGeo,
                 submitted, overlapped, accepted>>
  /\ \E fetched \in BOOLEAN :
       IF fetched
       THEN Continue(r, [r EXCEPT !.fences = Items(profiles[r.actor], "geofences")], 1)
       ELSE Respond(r, [r EXCEPT !.fault = "lookup"])

\* A detector that files its alerts as already acknowledged.
ViolationAlertAcknowledged(r) ==
  LET geofence == r.fences[r.idx]
  IN  [tourist_id |-> r.actor,
       type |-> "geofence_violation",
       severity |-> "high",
       location |-> Stringify([latitude |-> r.latitude,
                               longitude |-> r.longitude,
                               address |-> "Near " \o geofence.name]),
       message |-> "Tourist entered danger zone: " \o geofence.name,
       auto_generated |-> TRUE,
       status |-> "acknowledged"]

\* The columns of the alert the detector inserts.
ViolationAlert(r) ==
  LET geofence == r.fences[r.idx]
  IN  [tourist_id |-> r.actor,
       type |-> "geofence_violation",
       severity |-> "high",
       location |-> Stringify([latitude |-> r.latitude,
                               longitude |-> r.longitude,
                               address |-> "Near " \o geofence.name]),
       message |-> "Tourist entered danger zone: " \o geofence.name,
       auto_generated |-> TRUE]

\* Step 4, once per triggering geofence: the insert, which creates the alert,
\* reports an error (which the detector ignores) or is rejected (which ends
\* the loop in the catch block); then the loop runs on.
InsertViolation(r) ==
  /\ BagIn(r, locflight) /\ r.pc = "insert"
  /\ Len(alerts) < MaxAlerts
  /\ UNCHANGED <<now, alertvars, profiles, geoflight, numLoc, numGeo,
                 submitted, overlapped, accepted>>
  /\ \E outcome \in {"created", "error", "rejected"} :
       CASE outcome = "created" ->
              /\ alerts' = Append(alerts, InsertedRow(ViolationAlert(r)))
              /\ Continue(r, [r EXCEPT !.created = Append(@, Len(alerts) + 1)],
                          r.idx + 1)
         [] outcome = "error" ->
              /\ alerts' = alerts
              /\ Continue(r, [r EXCEPT !.fault = "insert"], r.idx + 1)
         [] OTHER ->
              /\ alerts' = alerts
              /\ Respond(r, [r EXCEPT !.fault = "insert"])

\* ---------------------------------------------------------- specification
\* No location update and no geofence creation yet.
InitRequests ==
  /\ locflight = EmptyBag
  /\ geoflight = EmptyBag
  /\ numLoc = 0
  /\ numGeo = 0
  /\ overlapped = [u \in Tourists |-> FALSE]
  /\ lastLoc = NoLoc
  /\ accepted = [u \in Tourists |-> <<>>]

Init ==
  /\ InitAlerts
  /\ InitRequests
  /\ handler \in Handlers
  /\ now = 1
  /\ profiles = [u \in Tourists |-> NoProfile]
  /\ submitted = [u \in Tourists |-> <<>>]

Next ==
  \/ \E u \in Users, body \in CreateAlertInputs : CreateAlertRoute(u, body)
  \/ \E u \in Users, id \in AlertIds, body \in StatusBodies :
        LoadAlert(u, id, body.status, body.notes)
  \/ \E r \in BagToSet(inflight) : UpdateAlert(r)

Spec == Init /\ [][Next]_vars

\* The list endpoint over stores built by both tourists, with alerts of two
\* types and severities and some of them resolved by a police actor.
ListCreateBodies ==
  {[type |-> "missing", severity |-> Undefined, location |-> Loc11,
    message |-> "help", additional_data |-> Undefined],
   [type |-> "panic", severity |-> "high", location |-> Loc11,
    message |-> "help", additional_data |-> Undefined]}

ListQueries ==
  [status : {Undefined, "resolved"}, type : {Undefined, "missing"},
   severity : {Undefined, "high"}, page : {Undefined, "1", "2"},
   limit : {Undefined, "1", "2"}]

NextList ==
  \/ \E u \in Tourists, body \in ListCreateBodies : CreateAlertRoute(u, body)
  \/ \E id \in AlertIds : LoadAlert("p1", id, "resolved", Undefined)
  \/ \E r \in BagToSet(inflight) : UpdateAlert(r)
  \/ \E u \in Users, q \in ListQueries : GetAlerts(u, q)

SpecList == Init /\ [][NextList]_vars

\* Location updates and geofence creations of tourist t1.  The geofences
\* column is JSON that other clients of the store write too: t1 may start
\* with a zone that was deactivated, or with one that has no coordinates.
Retired ==
  [id |-> [geofence |-> 0], name |-> "Quarry", coordinates |-> Centre,
   radius |-> 500, type |-> "danger", is_active |-> FALSE, created_at |-> 0]

Broken ==
  [id |-> [geofence |-> 0], name |-> "Marsh", radius |-> 500,
   type |-> "danger", is_active |-> TRUE, created_at |-> 0]

SeedFences == {SqlNull, List(<<Retired>>), List(<<Broken>>)}

InitLoc ==
  /\ InitAlerts
  /\ InitRequests
  /\ handler = "controller"
  /\ now = 1
  /\ \E f \in SeedFences :
       profiles = [u \in Tourists |->
                     IF u = "t1" THEN [NewProfile EXCEPT !.geofences = f]
                     ELSE NoProfile]
  /\ submitted = [u \in Tourists |-> <<>>]

NextLoc ==
  \/ \E body \in GeofenceBodies : LoadGeofences("t1", body)
  \/ \E r \in BagToSet(geoflight) : StoreGeofences(r)
  \/ \E body \in LocationBodies : LoadHistory("t1", body)
  \/ \E r \in BagToSet(locflight) : StoreHistory(r)
  \/ \E r \in BagToSet(locflight) : LoadFences(r)
  \/ \E r \in BagToSet(locflight) : InsertViolation(r)

SpecLoc == InitLoc /\ [][NextLoc]_vars

\* Location updates alone, t1 starting with no history or with the history
\* that MaxSeed earlier updates at Far have left.
SeedHistory(n) ==
  [i \in 1..n |-> [latitude |-> Far.latitude, longitude |-> Far.longitude,
                   timestamp |-> i, source |-> "mobile_app"]]

InitHist ==
  /\ InitAlerts
  /\ InitRequests
  /\ handler = "controller"
  /\ \E n \in {0, MaxSeed} :
       /\ now = n + 1
       /\ profiles = [u \in Tourists |->
                        IF u = "t1" /\ n > 0
                        THEN [NewProfile EXCEPT
                                !.location_history = List(SeedHistory(n))]
                        ELSE NoProfile]
       /\ submitted = [u \in Tourists |->
                         IF u = "t1" THEN SeedHistory(n) ELSE <<>>]

NextHist ==
  \/ \E u \in Tourists, body \in LocationBodies : LoadHistory(u, body)
  \/ \E r \in BagToSet(locflight) : StoreHistory(r)
  \/ \E r \in BagToSet(locflight) : LoadFences(r)

SpecHist == InitHist /\ [][NextHist]_vars

\* Every path that creates an alert: both createAlert handlers, the panic
\* route, and the detector for t1, who has created the danger zone Cliff.
CreateBodies ==
  [type : {"missing", "teleport"},
   severity : {Undefined, "high", "extreme"},
   location : {Loc11, LocEquator, NoLocation},
   message : {"help"},
   additional_data : {Undefined}]

Cliff ==
  [id |-> [geofence |-> 0], name |-> "Cliff", coordinates |-> Centre,
   radius |-> 500, type |-> "danger", is_active |-> TRUE, created_at |-> 0]

InitCreate ==
  /\ InitAlerts
  /\ InitRequests
  /\ handler = "controller"
  /\ now = 1
  /\ profiles = [u \in Tourists |->
                   IF u = "t1" THEN [NewProfile EXCEPT !.geofences = List(<<Cliff>>)]
                   ELSE NoProfile]
  /\ submitted = [u \in Tourists |-> <<>>]

CreateActors == {"t1", "p1"}

NextCreate ==
  \/ \E u \in CreateActors, body \in CreateBodies : CreateAlertRoute(u, body)
  \/ \E u \in CreateActors, body \in CreateBodies :
        CreateAlertController(u, body)
  \/ \E u \in CreateActors, body \in PanicBodies : CreatePanicAlert(u, body)
  \/ \E body \in LocationBodies : LoadHistory("t1", body)
  \/ \E r \in BagToSet(locflight) : StoreHistory(r)
  \/ \E r \in BagToSet(locflight) : LoadFences(r)
  \/ \E r \in BagToSet(locflight) : InsertViolation(r)

SpecCreate == InitCreate /\ [][NextCreate]_vars

\* Geofence creations of both tourists through createGeofence and through
\* the route of routes/tourist.js, t1 starting with no zone or with Cliff.
\* Radii are in tenths of a metre: -50 is -5 m, 5 is 0.5 m.
GeoBodies ==
  {[name |-> "Cliff", latitude |-> Centre.latitude,
    longitude |-> Centre.longitude, radius |-> 5005, type |-> "danger"],
   [name |-> "Pier", latitude |-> Centre.latitude,
    longitude |-> Centre.longitude, radius |-> 5005, type |-> "warning"],
   [name |-> "Crater", latitude |-> Centre.latitude,
    longitude |-> Centre.longitude, radius |-> 5005, type |-> "lava"],
   [name |-> "Depot", latitude |-> Centre.latitude,
    longitude |-> Centre.longitude, type |-> "danger"],
   [name |-> "Nil", latitude |-> Centre.latitude,
    longitude |-> Centre.longitude, radius |-> 0, type |-> "safe"],
   [name |-> "Pit", latitude |-> Centre.latitude,
    longitude |-> Centre.longitude, radius |-> 0 - 50, type |-> "danger"],
   [name |-> "Dot", latitude |-> Centre.latitude,
    longitude |-> Centre.longitude, radius |-> 5, type |-> "safe"]}

InitGeo ==
  /\ InitAlerts
  /\ InitRequests
  /\ handler = "controller"
  /\ now = 1
  /\ \E f \in {SqlNull, List(<<Cliff>>)} :
       profiles = [u \in Tourists |->
                     IF u = "t1" THEN [NewProfile EXCEPT !.geofences = f]
                     ELSE NoProfile]
  /\ submitted = [u \in Tourists |-> <<>>]

NextGeo ==
  \/ \E u \in Tourists, body \in GeoBodies : LoadGeofences(u, body)
  \/ \E r \in BagToSet(geoflight) : StoreGeofences(r)
  \/ \E u \in CreateActors, body \in GeoBodies : CreateGeofenceRoute(u, body)

SpecGeo == InitGeo /\ [][NextGeo]_vars

\* Location updates of t1 through updateLocation and through the route of
\* routes/tourist.js, with samples on the equator, out of range and without
\* a latitude; t1 has the danger zone Buoy on the equator.
OnEquator == [latitude |-> 0, longitude |-> 500]

RecordBodies ==
  {OnEquator,
   [latitude |-> 500, longitude |-> 500],
   [latitude |-> 91000000, longitude |-> 500],
   [latitude |-> 500, longitude |-> 0 - 181000000],
   [longitude |-> 500]}

Buoy ==
  [id |-> [geofence |-> 0], name |-> "Buoy", coordinates |-> OnEquator,
   radius |-> 500, type |-> "danger", is_active |-> TRUE, created_at |-> 0]

InitRec ==
  /\ InitAlerts
  /\ InitRequests
  /\ handler = "controller"
  /\ now = 1
  /\ profiles = [u \in Tourists |->
                   IF u = "t1" THEN [NewProfile EXCEPT !.geofences = List(<<Buoy>>)]
                   ELSE NoProfile]
  /\ submitted = [u \in Tourists |-> <<>>]

NextRec ==
  \/ \E body \in RecordBodies : LoadHistory("t1", body)
  \/ \E r \in BagToSet(locflight) : StoreHistory(r)
  \/ \E r \in BagToSet(locflight) : LoadFences(r)
  \/ \E r \in BagToSet(locflight) : InsertViolation(r)
  \/ \E u \in CreateActors, body \in RecordBodies : UpdateLocationRoute(u, body)

SpecRec == InitRec /\ [][NextRec]_vars

\* ------------------------------------------------------------ properties
Stored == 1..Len(alerts)

\* C1: after n status updates answered 200 the persisted Responses log of an
\* alert has exactly n entries (each update adds one entry and drops none),
\* also when the reads and writes of two updates of one alert interleave.
C1_LogCountsTransitions ==
  \A a \in Stored : LogLen(alerts[a].responses) = nOk[a]

\* C2: assigned_to is unset or equal to the first value it was ever given,
\* whatever later or overlapping status updates do.
C2_AssignedOnce ==
  \A a \in Stored : alerts[a].assigned_to = firstAssigned[a]

\* C3: resolved_at is set if and only if some status update to resolved was
\* answered 200; it is unset on creation, not set by an update to another
\* status, and not cleared by a later update away from resolved.
C3_ResolvedAtIff ==
  \A a \in Stored : (alerts[a].resolved_at # NoTime) <=> everResolved[a]

\* An alert that was resolved and then reopened keeps its resolved_at, next
\* to an alert that was never resolved.
C3_Witness ==
  \E a \in Stored :
    /\ everResolved[a] /\ alerts[a].status = "active"
    /\ alerts[a].resolved_at # NoTime
    /\ nOk[a] = 2

\* C5: a status update by a tourist on another user's alert is answered 403
\* (never 400), and leaves the alert table unchanged; an update by the owner
\* or by a police, admin or tourism_dept actor is never answered 403.
C5_ForbiddenForNonOwner ==
  [][/\ \A u \in Tourists, id \in Stored, body \in StatusBodies :
          (alerts[id].tourist_id # u /\ LoadAlert(u, id, body.status, body.notes))
            => lastRes'.code \in {NoRes.code, 404}
     /\ \A r \in BagToSet(inflight) :
          UpdateAlert(r) =>
            IF Role(r.actor) = "tourist" /\ alerts[r.alertId].tourist_id # r.actor
            THEN lastRes'.code = 403 /\ alerts' = alerts
            ELSE lastRes'.code # 403]_vars

\* C10: resolved and false_alarm are terminal: a change of an alert's status
\* to an enumerated status only moves along active -> acknowledged, resolved,
\* false_alarm and acknowledged -> resolved, false_alarm.
legalMoves ==
  ({"active"} \X {"acknowledged", "resolved", "false_alarm"})
    \cup ({"acknowledged"} \X {"resolved", "false_alarm"})

C10_TerminalStatuses ==
  [][\A a \in Stored :
       (alerts'[a].status # alerts[a].status /\ alerts'[a].status \in validStatuses)
         => <<alerts[a].status, alerts'[a].status>> \in legalMoves]_vars

\* C4: every alert a tourist's list request returns has that tourist as its
\* subject, whatever the filters, page and limit; a request of another role
\* without filters and with the default page and limit returns every alert.
C4_TouristScoped ==
  \A u \in Users, q \in ListQueries :
    LET got == ListResponse(u, q).alerts
    IN  IF Role(u) = "tourist"
        THEN \A i \in 1..Len(got) : got[i].tourist_id = u
        ELSE (\A f \in DOMAIN q : q[f] = Undefined)
               => {got[i].id : i \in 1..Len(got)} = Stored

\* A list request was served from a store in which a tourist gets a
\* non-empty list while another tourist's alert passes the same filters.
C4_Witness ==
  /\ lastRes = [op |-> "list", code |-> 200]
  /\ \E u \in Tourists, q \in ListQueries :
       /\ Len(ListResponse(u, q).alerts) > 0
       /\ \E a \in Stored :
            alerts[a].tourist_id # u /\ Matches("p1", q, alerts[a])

\* C6: a location update that ran to its response without a fault in the
\* detector created exactly one alert per geofence of the caller that is
\* active, of type danger and within its radius of the sample, in their
\* order, each with type geofence_violation, severity high, auto_generated
\* true and the sample as its location; other geofences yield none, and a
\* zone that triggered before triggers again.
C6_OneAlertPerDangerZone ==
  (lastLoc.code = 200 /\ lastLoc.fault = "none") =>
    LET inside(g) ==
          calculateDistance(lastLoc.latitude, lastLoc.longitude,
                            g.coordinates.latitude, g.coordinates.longitude)
            <= g.radius * 1000
        hit == SelectSeq(lastLoc.fences,
                 LAMBDA g : g.is_active /\ g.type = "danger" /\ inside(g))
    IN  /\ Len(lastLoc.created) = Len(hit)
        /\ \A i \in 1..Len(hit) :
             LET row == alerts[lastLoc.created[i]]
             IN  /\ row.tourist_id = lastLoc.actor
                 /\ row.type = "geofence_violation"
                 /\ row.severity = "high"
                 /\ row.auto_generated = TRUE
                 /\ row.location.text.latitude = lastLoc.latitude
                 /\ row.location.text.longitude = lastLoc.longitude
                 /\ row.message = "Tourist entered danger zone: " \o hit[i].name

\* The second of two updates inside the same danger zone has created the
\* second alert for it, the caller having other zones that yield none.
C6_Witness ==
  /\ lastLoc.code = 200 /\ lastLoc.fault = "none"
  /\ Len(lastLoc.fences) = 2
  /\ lastLoc.created = <<2>>
  /\ alerts[1].message = alerts[2].message
  /\ alerts[1].auto_generated /\ alerts[2].auto_generated

\* The history column of tourist u, as a sequence.
History(u) == Items(profiles[u], "location_history")

\* C7: a tourist's persisted location history never has more than 50
\* entries, and only the history write of a tourist's own location update
\* changes that tourist's history.
C7_HistoryBounded ==
  /\ [](\A u \in Tourists : Len(History(u)) <= HistoryKeep + 1)
  /\ [][\A u \in Tourists :
          History(u)' # History(u) =>
            \E r \in BagToSet(locflight) : r.actor = u /\ StoreHistory(r)]_vars

\* Two overlapping updates of t1 have both written a full history.
C7_Witness ==
  /\ Len(History("t1")) = HistoryKeep + 1
  /\ overlapped["t1"]
  /\ numLoc = 2 /\ locflight = EmptyBag
  /\ lastLoc.code = 200

\* C8: while a tourist's location updates did not overlap, the persisted
\* history is the last min(n, 50) of the n samples written, in the order
\* they were written.
C8_LastFiftyInOrder ==
  \A u \in Tourists :
    ~overlapped[u] =>
      History(u) = SliceLast(submitted[u], HistoryKeep + 1)

\* After 51 sequential samples the first is gone and the 51st is the last.
C8_Witness ==
  \E u \in Tourists :
    /\ ~overlapped[u]
    /\ Len(submitted[u]) = HistoryKeep + 2
    /\ Len(History(u)) = HistoryKeep + 1
    /\ History(u)[1] = submitted[u][2]
    /\ History(u)[HistoryKeep + 1] = submitted[u][HistoryKeep + 2]
    /\ \A i \in 1..Len(History(u)) : History(u)[i] # submitted[u][1]

\* C9: once the history write of a location update succeeded, no step of
\* the detector changes a profile, and the step that ends the call answers
\* 200, whether the geofence lookup failed, the evaluation of a geofence
\* threw, or an alert insert failed.
C9_DetectorFailureSwallowed ==
  [][\A r \in BagToSet(locflight) :
       (LoadFences(r) \/ InsertViolation(r)) =>
         /\ profiles' = profiles
         /\ lastRes' # NoRes =>
              /\ lastRes' = [op |-> "location", code |-> 200]
              /\ lastLoc'.code = 200
              /\ lastLoc'.actor = r.actor]_vars

\* A call whose alert insert failed was answered 200 and its sample is the
\* last of the persisted history.
C9_Witness ==
  /\ lastRes = [op |-> "location", code |-> 200]
  /\ lastLoc.code = 200 /\ lastLoc.fault = "insert"
  /\ lastLoc.created = <<>>
  /\ LET h == History(lastLoc.actor)
     IN  /\ Len(h) > 0
         /\ h[Len(h)].latitude = lastLoc.latitude
         /\ h[Len(h)].longitude = lastLoc.longitude

\* C11: every alert's status is one of the four enumerated values, and a
\* status update whose status is missing or not enumerated ends with 400
\* (or with 404 or 403 before that) and leaves the alert table unchanged.
C11_StatusEnumerated ==
  /\ [](\A a \in Stored : alerts[a].status \in validStatuses)
  /\ [][/\ \A u \in Users, id \in AlertIds, body \in StatusBodies :
            (body.status \notin validStatuses
               /\ LoadAlert(u, id, body.status, body.notes))
              => lastRes'.code \in {NoRes.code, 400, 404} /\ alerts' = alerts
         /\ \A r \in BagToSet(inflight) :
              (r.status \notin validStatuses /\ UpdateAlert(r))
                => lastRes'.code \in {400, 403} /\ alerts' = alerts]_vars

\* C12: a status update that names an id no alert has is answered 404,
\* whoever sends it and whatever status it carries, and writes nothing.
C12_NotFoundFirst ==
  [][\A u \in Users, id \in AlertIds, body \in StatusBodies :
       (id \notin Stored /\ LoadAlert(u, id, body.status, body.notes))
         => lastRes'.code = 404 /\ alerts' = alerts]_vars

\* The row a step has added to the alert table.
Added == alerts'[Len(alerts')]

\* C13: every alert, whether createAlert, the panic route or the detector
\* inserts it, starts with status active, no assigned_to, no resolved_at
\* and an empty Responses log.
C13_CreatedActive ==
  [][Len(alerts') > Len(alerts) =>
       /\ Len(alerts') = Len(alerts) + 1
       /\ Added.status = "active"
       /\ Added.assigned_to = NullId
       /\ Added.resolved_at = NoTime
       /\ LogLen(Added.responses) = 0]_vars

\* The table holds a panic alert and an alert of the detector.
C13_Witness ==
  /\ Len(alerts) = 2
  /\ alerts[1].type = "panic" /\ ~alerts[1].auto_generated
  /\ alerts[2].type = "geofence_violation" /\ alerts[2].auto_generated
  /\ alerts[1].status = "active" /\ alerts[2].status = "active"

\* C14: the alert a panic request persists has type panic, severity
\* critical, status active and the caller as its subject, whatever type,
\* severity or status the request carries; its message is the caller's, or
\* the fixed text when there is none, and its additional data has the panic
\* flag.
C14_PanicForced ==
  [][lastRes' = [op |-> "panic", code |-> 201] =>
     \A u \in Users, body \in PanicBodies :
       CreatePanicAlert(u, body) =>
         /\ Len(alerts') = Len(alerts) + 1
         /\ Added.type = "panic"
         /\ Added.severity = "critical"
         /\ Added.status = "active"
         /\ Added.tourist_id = u
         /\ Added.message =
              (IF body.message = Undefined THEN PanicText ELSE body.message)
         /\ Added.additional_data.text.panic_button = TRUE]_vars

\* Two panic alerts: one with the fixed text, one with the caller's message.
C14_Witness ==
  /\ lastRes = [op |-> "panic", code |-> 201]
  /\ Len(alerts) = 2
  /\ alerts[1].type = "panic" /\ alerts[1].message = PanicText
  /\ alerts[2].type = "panic" /\ alerts[2].message = "trapped"
  /\ alerts[2].severity = "critical"

\* C15: every alert's severity is low, medium, high or critical and its type
\* one of the six; a createAlert request whose severity or type is not
\* enumerated is answered 400 (403 for a caller the route does not admit)
\* and creates no alert; with no severity given medium is stored.
C15_SeverityAndTypeEnumerated ==
  /\ [](\A a \in Stored :
          alerts[a].severity \in validSeverities /\ alerts[a].type \in validTypes)
  /\ [][\A u \in Users, body \in CreateBodies :
          (CreateAlertRoute(u, body) \/ CreateAlertController(u, body)) =>
            /\ (body.type \notin validTypes
                  \/ body.severity \notin validSeverities \cup {Undefined})
                 => lastRes'.code \in {400, 403} /\ alerts' = alerts
            /\ (body.severity = Undefined /\ lastRes'.code = 201)
                 => Added.severity = "medium"]_vars

Geofences(u) == Items(profiles[u], "geofences")

\* C16: createGeofence writes the geofence list it read with its own
\* geofence appended, whatever the row holds by then: once a creation of a
\* user was answered 201, the persisted set is the set the last of them read
\* plus its own geofence, so of two creations that both read before either
\* wrote and both answered 201 only the last writer's geofence is persisted.
C16_LastWriterWins ==
  \A u \in Tourists :
    accepted[u] # <<>> =>
      LET last == accepted[u][Len(accepted[u])]
      IN  Geofences(u) = Append(last.read, last.geofence)

\* Two creations of t1 that read the same list were both answered 201; the
\* persisted set has one geofence more than they read, the second one's,
\* and the first one's is not in it.
C16_Witness ==
  /\ Len(accepted["t1"]) = 2
  /\ geoflight = EmptyBag
  /\ accepted["t1"][1].read = accepted["t1"][2].read
  /\ Len(Geofences("t1")) = Len(accepted["t1"][2].read) + 1
  /\ Geofences("t1")[Len(Geofences("t1"))] = accepted["t1"][2].geofence
  /\ \A i \in 1..Len(Geofences("t1")) :
       Geofences("t1")[i] # accepted["t1"][1].geofence

\* C17: every persisted geofence has a positive radius and a type among
\* safe, warning and danger; a creation whose radius is missing, zero or
\* negative or whose type is not one of the three is answered 400 and
\* stores nothing.
C17_GeofencesValid ==
  /\ [](\A u \in Tourists :
         \A i \in 1..Len(Geofences(u)) :
           /\ Geofences(u)[i].radius > 0
           /\ Geofences(u)[i].type \in geofenceTypes)
  /\ [][\A u \in Tourists, body \in GeoBodies :
          (/\ \/ "radius" \notin DOMAIN body
              \/ body.radius <= 0
              \/ body.type \notin geofenceTypes
           /\ LoadGeofences(u, body) \/ CreateGeofenceRoute(u, body))
          => /\ lastRes'.code = 400
             /\ profiles' = profiles
             /\ geoflight' = geoflight]_vars

\* C18: for every page and limit the caller supplies, the list response
\* holds exactly the alerts at positions offset .. offset+limit-1 of the
\* filtered result, newest first, with offset = (page-1)*limit; its total
\* is the number of filtered matches and its pages is ceil(total/limit).
C18_Paginated ==
  \A u \in Users, q \in ListQueries :
    (lastRes = [op |-> "list", code |-> 200]
       /\ q.page # Undefined /\ q.limit # Undefined) =>
      LET page == DecimalValue[q.page]
          limit == DecimalValue[q.limit]
          rows == SelectSeq(NewestFirst(alerts), LAMBDA row : Matches(u, q, row))
          offset == (page - 1) * limit
          got == ListResponse(u, q)
      IN  /\ Len(got.alerts) <= limit
          /\ got.alerts = [i \in 1..Len(got.alerts) |-> rows[offset + i]]
          /\ Len(got.alerts) = IF Len(rows) - offset < 0 THEN 0
                               ELSE IF Len(rows) - offset < limit
                               THEN Len(rows) - offset ELSE limit
          /\ got.pagination.total = Len(rows)
          /\ got.pagination.pages = (Len(rows) + limit - 1) \div limit

\* C19: a location sample whose latitude or longitude is missing or outside
\* [-90, 90] / [-180, 180] is answered 400, and that call changes no
\* history and creates no alert; a sample inside the ranges, latitude 0
\* and longitude 0 included, is not answered 400.
C19_LocationValidated ==
  [][\A body \in RecordBodies :
       (LoadHistory("t1", body) \/ UpdateLocationRoute("t1", body)) =>
         IF /\ "latitude" \in DOMAIN body /\ "longitude" \in DOMAIN body
            /\ body.latitude \in (0 - MaxLatitude)..MaxLatitude
            /\ body.longitude \in (0 - MaxLongitude)..MaxLongitude
         THEN lastRes'.code # 400
         ELSE /\ lastRes'.code = 400
              /\ profiles' = profiles
              /\ alerts' = alerts
              /\ locflight' = locflight]_vars

\* C20: no step removes an alert or changes the id, subject, type,
\* severity, location, message, additional data or auto_generated flag of a
\* stored alert (a status update changes only status, updated_at,
\* resolved_at, assigned_to and responses), and a status update changes no
\* alert other than the one it names.
C20_UpdateFrame ==
  [][/\ Len(alerts') >= Len(alerts)
     /\ \A a \in Stored :
          \A c \in {"id", "tourist_id", "type", "severity", "location",
                    "message", "additional_data", "auto_generated"} :
            alerts'[a][c] = alerts[a][c]
     /\ \A r \in BagToSet(inflight) :
          UpdateAlert(r) =>
            \A a \in Stored \ {r.alertId} : alerts'[a] = alerts[a]]_vars

\* A status update of alert 1 was just answered 200 and changed its status
\* and log, while alert 2 is as it was created.
C20_Witness ==
  /\ lastRes = [op |-> "status", code |-> 200]
  /\ Len(alerts) = 2
  /\ nOk[1] = 1 /\ nOk[2] = 0
  /\ alerts[1].status = "resolved" /\ LogLen(alerts[1].responses) = 1
  /\ alerts[1].message = "help" /\ alerts[1].tourist_id = "t1"
  /\ alerts[2].status = "active" /\ alerts[2].updated_at = NoTime

\* C21: an alert is created unassigned; assigned_to only changes in a
\* status update of that alert answered 200, to the id of its actor, whose
\* role is police, admin or tourism_dept.  So a tourist is never the
\* assignee, a tourist's update of an unassigned alert leaves it unassigned,
\* and a responder's update of an unassigned alert assigns it to them.
C21_AssigneeIsResponder ==
  /\ [](\A a \in Stored :
         alerts[a].assigned_to = NullId
           \/ Role(alerts[a].assigned_to) \in responderRoles)
  /\ [][/\ \A a \in 1..Len(alerts') :
            IF a \notin Stored THEN alerts'[a].assigned_to = NullId
            ELSE alerts'[a].assigned_to # alerts[a].assigned_to =>
                   \E r \in BagToSet(inflight) :
                     /\ UpdateAlert(r) /\ r.alertId = a
                     /\ lastRes' = [op |-> "status", code |-> 200]
                     /\ alerts'[a].assigned_to = r.actor
                     /\ Role(r.actor) \in responderRoles
        /\ \A r \in BagToSet(inflight) :
             (/\ UpdateAlert(r)
              /\ lastRes' = [op |-> "status", code |-> 200]
              /\ alerts[r.alertId].assigned_to = NullId) =>
               alerts'[r.alertId].assigned_to =
                 IF Role(r.actor) \in responderRoles THEN r.actor ELSE NullId]_vars

\* Alert 1 was updated once, by police officer p1, and is assigned to p1;
\* alert 2 was updated once, by its tourist, and is still unassigned.
C21_Witness ==
  /\ Len(alerts) = 2
  /\ nOk[1] = 1 /\ alerts[1].assigned_to = "p1"
  /\ LogLen(alerts[1].responses) = 1
  /\ nOk[2] = 1 /\ alerts[2].assigned_to = NullId
  /\ alerts[2].status = "resolved"

\* The response objects of a stored responses value, in order.
Entries(v) ==
  IF v.kind = "null" THEN <<>>
  ELSE IF v.kind = "array" THEN v.items
  ELSE v.text.items

\* C22: an alert whose responses log is empty has the status it was created
\* with, active; otherwise its status is the one named in the action text
\* of the last entry of the log, also after overlapping status updates.
C22_StatusMatchesLog ==
  \A a \in Stored :
    IF LogLen(alerts[a].responses) = 0
    THEN alerts[a].status = "active"
    ELSE LET entries == Entries(alerts[a].responses)
         IN  /\ entries # <<>>
             /\ entries[Len(entries)].action =
                  "Status changed to " \o alerts[a].status

\* C23: a location update leaves every persisted geofence set as it is and
\* touches no profile but its caller's; a geofence creation leaves every
\* persisted location history as it is and touches no profile but its
\* caller's; this also holds when the two overlap for one user.
C23_ProfileColumnsFramed ==
  [][/\ \A r \in BagToSet(locflight) :
          (StoreHistory(r) \/ LoadFences(r) \/ InsertViolation(r)) =>
            /\ \A u \in Tourists : Geofences(u)' = Geofences(u)
            /\ \A u \in Tourists \ {r.actor} : profiles'[u] = profiles[u]
     /\ \A r \in BagToSet(geoflight) :
          StoreGeofences(r) =>
            /\ \A u \in Tourists : History(u)' = History(u)
            /\ \A u \in Tourists \ {r.actor} : profiles'[u] = profiles[u]
     /\ (\E body \in GeofenceBodies : LoadGeofences("t1", body)) =>
          profiles' = profiles
     /\ (\E body \in LocationBodies : LoadHistory("t1", body)) =>
          profiles' = profiles]_vars

\* A location update of t1 has written its sample while a geofence creation
\* of t1 is between its read and its write, and the geofence t1 had is
\* still persisted.
C23_Witness ==
  /\ \E r \in BagToSet(locflight) :
       /\ r.actor = "t1" /\ r.pc # "write"
       /\ History("t1") = Append(r.currentHistory,
                                  History("t1")[Len(History("t1"))])
  /\ \E g \in BagToSet(geoflight) :
       /\ g.actor = "t1"
       /\ g.currentGeofences # <<>>
       /\ Geofences("t1") = g.currentGeofences
  /\ Len(submitted["t1"]) = 1

\* C24: within a location update the detector runs after the history write
\* has succeeded and before the response.  A call that has not written its
\* sample has created no alert, a call in the detector has its sample
\* persisted, a call answered 400 or 500 creates no alert, only a call in
\* the detector creates alerts, and every alert a call answered 200 has
\* created is in the alerts table when the response is sent.
C24_DetectorAfterWrite ==
  /\ [](\A r \in BagToSet(locflight) :
         IF r.pc = "write" THEN r.created = <<>>
         ELSE \E i \in 1..Len(submitted[r.actor]) :
                /\ submitted[r.actor][i].latitude = r.latitude
                /\ submitted[r.actor][i].longitude = r.longitude)
  /\ [][/\ alerts' # alerts =>
            \E r \in BagToSet(locflight) :
              /\ r.pc = "insert" /\ InsertViolation(r)
              /\ Len(alerts') = Len(alerts) + 1
              /\ Added.type = "geofence_violation"
              /\ Added.tourist_id = r.actor
        /\ (lastRes'.op = "location" /\ lastRes'.code \in {400, 500}) =>
             alerts' = alerts /\ lastLoc' = lastLoc
        /\ lastLoc' # lastLoc =>
             /\ lastRes' = [op |-> "location", code |-> 200]
             /\ \A i \in 1..Len(lastLoc'.created) :
                  /\ lastLoc'.created[i] \in 1..Len(alerts')
                  /\ alerts'[lastLoc'.created[i]].type = "geofence_violation"
                  /\ alerts'[lastLoc'.created[i]].tourist_id = lastLoc'.actor]_vars

\* Of two location updates of t1 one failed to persist its sample and the
\* other was answered 200 after the detector created an alert for it; that
\* alert is the only one.
C24_Witness ==
  /\ lastRes = [op |-> "location", code |-> 200]
  /\ lastLoc.code = 200 /\ lastLoc.created = <<1>>
  /\ Len(alerts) = 1 /\ alerts[1].type = "geofence_violation"
  /\ numLoc = 2 /\ locflight = EmptyBag
  /\ Len(submitted["t1"]) = 1

\* C25: the geofences of one user's persisted set have pairwise distinct
\* ids, also when two creations of that user read the same clock value.
C25_GeofenceIdsDistinct ==
  \A u \in Tourists :
    \A i, j \in 1..Len(Geofences(u)) :
      i # j => Geofences(u)[i].id # Geofences(u)[j].id

====
